---- MODULE Spec2Model ----
(***************************************************************************)
(* GOT OCR 2.0 CPU server: the model handle cache (core.py), the OCR       *)
(* dispatcher GOTOCRProcessor.process_image (core.py), and the three       *)
(* transports that wrap it: POST /ocr and the Bookxnote local OCR service  *)
(* (api_server.py) and the typer command (cli.py).                         *)
(*                                                                         *)
(* Two specifications share the state and the actions:                     *)
(*   SpecCache  NThreads threads call get_model_and_tokenizer and          *)
(*              clear_cache on one GOTOCRProcessor, one bytecode-level     *)
(*              step at a time;                                            *)
(*   Spec       one request at a time runs through a transport, while      *)
(*              other threads of the process store into and clear the      *)
(*              cache between any two of its steps.                        *)
(***************************************************************************)
EXTENDS Naturals, FiniteSets, TLC

\* Number of threads sharing the GOTOCRProcessor in SpecCache.
NThreads == 2

\* The model+tokenizer pair is constructed at most this many times in a run.
MaxConstructions == 3

Threads == 1..NThreads

\* The thread that runs the requests of Spec.
Main == CHOOSE t \in Threads : \A u \in Threads : t <= u

cache_key == "got_ocr_model"

\* The empty dict of GOTOCRProcessor.__init__.
EmptyCache == [k \in {} |-> [model |-> 0, tokenizer |-> 0]]

VARIABLES
    cache,          \* processor._model_cache: a dict keyed by cache_key
    constructions,  \* pairs constructed by get_model_and_tokenizer so far
    cleared,        \* clear_cache has run at least once
    fs,             \* content of the file at the output / render path
    pc,             \* per thread: where it is in its operation
    req,            \* per thread: the operation and its arguments
    loc             \* per thread: locals, and what the operation did so far

vars == <<cache, constructions, cleared, fs, pc, req, loc>>

--------------------------------------------------------------------------
\* Inputs

ImageKinds == {"valid", "corrupt"}

\* by_file: no upload, or an upload with these bytes.
FileInputs == {"None"} \cup ImageKinds

\* by_base64 / base64_image: missing, empty, not base64, base64 of bytes
\* that are no image, base64 of an image.
Base64Inputs == {"None", "", "notb64", "b64corrupt", "b64valid"}

\* OcrType and Method of api_server.py; the CLI and a direct caller pass
\* plain strings.
OcrTypes == {"ocr", "format"}

Methods == {"chat", "chat_crop"}

CliMethods == {"chat", "chat_crop", "crop", "bogus"}

DirectMethods == {"chat", "chat_crop", "bogus"}

Paths == {"None", "out.html"}

NoReq ==
    [transport |-> "none", by_file |-> "None", by_base64 |-> "None",
     image |-> "None", ocr_type |-> "ocr", method |-> "chat",
     render |-> FALSE, path |-> "None"]

NoCall ==
    [entry |-> "none", ocr_type |-> "ocr", render |-> FALSE,
     save_render_file |-> "None"]

NoResp == [kind |-> "none", code |-> 0, body |-> "none"]

NoLoc ==
    [buf |-> "none", built |-> 0, model |-> 0, tok |-> 0,
     result |-> "none", exc |-> "None", touched |-> FALSE,
     call |-> NoCall, resp |-> NoResp]

Init ==
    /\ cache = EmptyCache
    /\ constructions = 0
    /\ cleared = FALSE
    /\ fs = "absent"
    /\ pc = [t \in Threads |-> "idle"]
    /\ req = [t \in Threads |-> NoReq]
    /\ loc = [t \in Threads |-> NoLoc]

--------------------------------------------------------------------------
\* How an operation ends

\* base64.b64decode on the input kinds: the decoded bytes, or the error.
B64Decode(s) ==
    CASE s = "b64valid" -> "valid"
      [] s = "b64corrupt" -> "corrupt"
      [] s = "" -> "empty"
      [] OTHER -> "binascii.Error"

\* An exception e leaves the code of core.py / _process_image in thread t:
\* the two api_server handlers catch it, typer turns it into exit code 1,
\* and a direct caller sees it.
Raise(t, l, e) ==
    IF req[t].transport \in {"http", "bxn"}
    THEN /\ pc' = [pc EXCEPT ![t] = "except"]
         /\ loc' = [loc EXCEPT ![t] = [l EXCEPT !.exc = e]]
    ELSE /\ pc' = [pc EXCEPT ![t] = "done"]
         /\ loc' = [loc EXCEPT ![t] = [l EXCEPT !.exc = e, !.resp =
                IF req[t].transport = "cli"
                THEN [kind |-> "exit", code |-> 1, body |-> e]
                ELSE [kind |-> "raise", code |-> 0, body |-> e]]]

Finish(t, l, r) ==
    /\ pc' = [pc EXCEPT ![t] = "done"]
    /\ loc' = [loc EXCEPT ![t] = [l EXCEPT !.resp = r]]

Goto(t, l, p) ==
    /\ pc' = [pc EXCEPT ![t] = p]
    /\ loc' = [loc EXCEPT ![t] = l]

Start(t, r, p) ==
    /\ pc[t] = "idle"
    /\ req' = [req EXCEPT ![t] = r]
    /\ pc' = [pc EXCEPT ![t] = p]
    /\ loc' = [loc EXCEPT ![t] = NoLoc]
    /\ UNCHANGED <<cache, constructions, cleared, fs>>

\* The caller is done with the outcome; the thread takes the next operation.
Reset(t) ==
    /\ pc[t] = "done"
    /\ pc' = [pc EXCEPT ![t] = "idle"]
    /\ req' = [req EXCEPT ![t] = NoReq]
    /\ loc' = [loc EXCEPT ![t] = NoLoc]
    /\ UNCHANGED <<cache, constructions, cleared, fs>>

--------------------------------------------------------------------------
\* core.py: GOTOCRProcessor.get_model_and_tokenizer and clear_cache

\* A bare call of get_model_and_tokenizer (the lifespan preload, or any
\* thread holding the processor).
StartAcquire(t) ==
    Start(t, [NoReq EXCEPT !.transport = "acquire"], "get_check")

\* line 14: if cache_key not in self._model_cache
GetCheck(t) ==
    /\ pc[t] = "get_check"
    /\ Goto(t, [loc[t] EXCEPT !.touched = TRUE],
            IF cache_key \in DOMAIN cache THEN "get_read_model"
            ELSE "get_construct")
    /\ UNCHANGED <<cache, constructions, cleared, fs, req>>

\* lines 15-24: the two from_pretrained calls build a new pair, or fail.
GetConstruct(t) ==
    /\ pc[t] = "get_construct"
    /\ \/ /\ constructions < MaxConstructions
          /\ constructions' = constructions + 1
          /\ Goto(t, [loc[t] EXCEPT !.built = constructions + 1], "get_store")
       \/ /\ Raise(t, loc[t], "ModelUnavailable")
          /\ UNCHANGED constructions
    /\ UNCHANGED <<cache, cleared, fs, req>>

\* lines 25-28: self._model_cache[cache_key] = {...}
GetStore(t) ==
    /\ pc[t] = "get_store"
    /\ cache' = [k \in {cache_key} |->
                    [model |-> loc[t].built, tokenizer |-> loc[t].built]]
    /\ Goto(t, loc[t], "get_read_model")
    /\ UNCHANGED <<constructions, cleared, fs, req>>

\* line 29, first element: self._model_cache[cache_key]["model"]
GetReadModel(t) ==
    /\ pc[t] = "get_read_model"
    /\ IF cache_key \in DOMAIN cache
       THEN Goto(t, [loc[t] EXCEPT !.model = cache[cache_key].model],
                 "get_read_tok")
       ELSE Raise(t, loc[t], "KeyError")
    /\ UNCHANGED <<cache, constructions, cleared, fs, req>>

\* lines 29-31, second element: self._model_cache[cache_key]["tokenizer"];
\* a bare call returns the pair, process_image goes on to line 46.
GetReadTok(t) ==
    /\ pc[t] = "get_read_tok"
    /\ IF cache_key \in DOMAIN cache
       THEN LET l == [loc[t] EXCEPT !.tok = cache[cache_key].tokenizer]
            IN  IF req[t].transport = "acquire"
                THEN Finish(t, l, [kind |-> "return", code |-> 0,
                                   body |-> "pair"])
                ELSE Goto(t, l, "invoke")
       ELSE Raise(t, loc[t], "KeyError")
    /\ UNCHANGED <<cache, constructions, cleared, fs, req>>

\* clear_cache, lines 63-64 (also the lifespan shutdown, api_server.py 40).
ClearCache(t) ==
    /\ pc[t] = "idle"
    /\ cache' = EmptyCache
    /\ cleared' = TRUE
    /\ pc' = [pc EXCEPT ![t] = "done"]
    /\ req' = [req EXCEPT ![t] = [NoReq EXCEPT !.transport = "clear"]]
    /\ loc' = [loc EXCEPT ![t] = [NoLoc EXCEPT !.resp =
                   [kind |-> "return", code |-> 0, body |-> "None"]]]
    /\ UNCHANGED <<constructions, fs>>

NextCache ==
    \E t \in Threads :
        \/ StartAcquire(t)
        \/ GetCheck(t)
        \/ GetConstruct(t)
        \/ GetStore(t)
        \/ GetReadModel(t)
        \/ GetReadTok(t)
        \/ ClearCache(t)
        \/ Reset(t)

SpecCache == Init /\ [][NextCache]_vars

--------------------------------------------------------------------------
\* The OCR model (external): what a call of model.chat / model.chat_crop does

\* The text the model returns.
ModelText == "raw_text"

\* The document the model writes to save_render_file.
RenderedDoc == "rendered_doc"

\* The model writes the rendered document when asked to render formatted
\* output into a path.
ModelRenders(ocr_type, render, save_render_file) ==
    render /\ ocr_type = "format" /\ save_render_file # "None"

\* The file at the path after a successful call.
FileAfterCall(ocr_type, render, save_render_file) ==
    IF ModelRenders(ocr_type, render, save_render_file) THEN RenderedDoc
    ELSE fs

--------------------------------------------------------------------------
\* core.py: GOTOCRProcessor.process_image, lines 46-61

\* line 46: processor = model.chat_crop if method == "chat_crop" else model.chat
CoreProcessor(method) ==
    IF method = "chat_crop" THEN "chat_crop" ELSE "chat"

\* lines 48-53: the kwargs of the call. _process_image passes no
\* save_render_file, so the default None reaches the model.
CoreKwargs(r) ==
    [entry |-> CoreProcessor(r.method), ocr_type |-> r.ocr_type,
     render |-> r.render,
     save_render_file |-> IF r.transport = "direct" THEN r.path ELSE "None"]

\* The image argument: the BytesIO of _process_image, or the caller's own.
CoreImage(t) ==
    IF req[t].transport = "direct" THEN req[t].image ELSE loc[t].buf

\* lines 46-61: PILImage.open(image).convert('RGB') fails on bytes that are
\* no image; then the model runs, and returns its text or raises.
CoreInvoke(t) ==
    /\ pc[t] = "invoke"
    /\ IF CoreImage(t) # "valid"
       THEN /\ Raise(t, loc[t], "UnidentifiedImageError")
            /\ UNCHANGED fs
       ELSE LET k == CoreKwargs(req[t])
                l == [loc[t] EXCEPT !.call = k]
            IN  \/ /\ fs' = FileAfterCall(k.ocr_type, k.render,
                                          k.save_render_file)
                   /\ IF req[t].transport = "direct"
                      THEN Finish(t, [l EXCEPT !.result = ModelText],
                                  [kind |-> "return", code |-> 0,
                                   body |-> ModelText])
                      ELSE Goto(t, [l EXCEPT !.result = ModelText],
                                "respond")
                \/ /\ Raise(t, l, "InferenceFailure")
                   /\ UNCHANGED fs
    /\ UNCHANGED <<cache, constructions, cleared, req>>

\* A direct call of GOTOCRProcessor.process_image, lines 33-44.
StartDirect(t) ==
    \E img \in ImageKinds, ty \in OcrTypes, m \in DirectMethods,
       r \in BOOLEAN, p \in Paths :
        Start(t, [NoReq EXCEPT !.transport = "direct", !.image = img,
                               !.ocr_type = ty, !.method = m, !.render = r,
                               !.path = p], "get_check")

--------------------------------------------------------------------------
\* api_server.py: _process_image, lines 74-102

\* lines 84-92: fill the BytesIO from the upload or the base64 string.
Ingest(t) ==
    /\ pc[t] = "ingest"
    /\ IF req[t].by_file # "None"
       THEN Goto(t, [loc[t] EXCEPT !.buf = req[t].by_file], "get_check")
       ELSE IF req[t].by_base64 = "None"
            THEN Raise(t, loc[t], "ValueError")
            ELSE IF B64Decode(req[t].by_base64) = "binascii.Error"
                 THEN Raise(t, loc[t], "binascii.Error")
                 ELSE Goto(t, [loc[t] EXCEPT !.buf =
                                   B64Decode(req[t].by_base64)], "get_check")
    /\ UNCHANGED <<cache, constructions, cleared, fs, req>>

--------------------------------------------------------------------------
\* api_server.py: POST /ocr, lines 105-154

StartHttp(t) ==
    \E f \in FileInputs, b \in Base64Inputs, ty \in OcrTypes,
       m \in Methods, r \in BOOLEAN :
        Start(t, [NoReq EXCEPT !.transport = "http", !.by_file = f,
                               !.by_base64 = b, !.ocr_type = ty,
                               !.method = m, !.render = r], "http_validate")

\* line 128: by_file is None and not by_base64
HttpNoInput(r) == r.by_file = "None" /\ r.by_base64 \in {"None", ""}

\* line 133: render and ocr_type != OcrType.FORMAT
RenderWithoutFormat(r) == r.render /\ r.ocr_type # "format"

\* lines 128-137
HttpValidate(t) ==
    /\ pc[t] = "http_validate"
    /\ IF HttpNoInput(req[t])
       THEN Finish(t, loc[t], [kind |-> "http", code |-> 400,
                               body |-> "input required"])
       ELSE IF RenderWithoutFormat(req[t])
            THEN Finish(t, loc[t], [kind |-> "http", code |-> 400,
                                    body |-> "render needs format"])
            ELSE Goto(t, loc[t], "ingest")
    /\ UNCHANGED <<cache, constructions, cleared, fs, req>>

\* line 150: return {"result": result}
HttpRespond(t) ==
    /\ pc[t] = "respond"
    /\ req[t].transport = "http"
    /\ Finish(t, loc[t], [kind |-> "http", code |-> 200,
                          body |-> loc[t].result])
    /\ UNCHANGED <<cache, constructions, cleared, fs, req>>

\* lines 151-154: nothing below raises HTTPException, so every exception
\* becomes a 500.
HttpExcept(t) ==
    /\ pc[t] = "except"
    /\ req[t].transport = "http"
    /\ Finish(t, loc[t], [kind |-> "http", code |-> 500,
                          body |-> loc[t].exc])
    /\ UNCHANGED <<cache, constructions, cleared, fs, req>>

--------------------------------------------------------------------------
\* api_server.py: BookxnoteLocalOCRService.post_ocr_by_bxn_local_ocr

\* lines 158-163, with the fixed arguments of lines 177-181.
StartBxn(t) ==
    \E b \in Base64Inputs :
        Start(t, [NoReq EXCEPT !.transport = "bxn", !.by_base64 = b,
                               !.ocr_type = "ocr", !.method = "chat_crop"],
              "bxn_validate")

\* line 167: not base64_image
BxnNoInput(r) == r.by_base64 \in {"None", ""}

\* lines 167-175
BxnValidate(t) ==
    /\ pc[t] = "bxn_validate"
    /\ IF BxnNoInput(req[t])
       THEN Finish(t, loc[t], [kind |-> "bxn", code |-> 400,
                               body |-> "base64_image is required"])
       ELSE Goto(t, loc[t], "ingest")
    /\ UNCHANGED <<cache, constructions, cleared, fs, req>>

\* lines 189-199
BxnRespond(t) ==
    /\ pc[t] = "respond"
    /\ req[t].transport = "bxn"
    /\ Finish(t, loc[t], [kind |-> "bxn", code |-> 0, body |-> loc[t].result])
    /\ UNCHANGED <<cache, constructions, cleared, fs, req>>

\* A handler that catches only ValueError: any other exception leaves the
\* service method and the framework answers 500.
BxnExceptValueErrorOnly(t) ==
    /\ pc[t] = "except"
    /\ req[t].transport = "bxn"
    /\ Finish(t, loc[t],
              IF loc[t].exc = "ValueError"
              THEN [kind |-> "bxn", code |-> 400, body |-> loc[t].exc]
              ELSE [kind |-> "http", code |-> 500, body |-> loc[t].exc])
    /\ UNCHANGED <<cache, constructions, cleared, fs, req>>

\* lines 182-188: except Exception -> BadRequestError with code 400
BxnExcept(t) ==
    /\ pc[t] = "except"
    /\ req[t].transport = "bxn"
    /\ Finish(t, loc[t], [kind |-> "bxn", code |-> 400, body |-> loc[t].exc])
    /\ UNCHANGED <<cache, constructions, cleared, fs, req>>

--------------------------------------------------------------------------
\* cli.py: the typer command process_image, lines 17-51

StartCli(t) ==
    \E img \in ImageKinds, ty \in OcrTypes, m \in CliMethods,
       r \in BOOLEAN, out \in Paths :
        Start(t, [NoReq EXCEPT !.transport = "cli", !.image = img,
                               !.ocr_type = ty, !.method = m, !.render = r,
                               !.path = out], "cli_load")

\* line 26, load_model lines 8-15: the CLI loads its own pair, first thing.
CliLoad(t) ==
    /\ pc[t] = "cli_load"
    /\ \/ Goto(t, [loc[t] EXCEPT !.touched = TRUE], "cli_validate")
       \/ Raise(t, [loc[t] EXCEPT !.touched = TRUE], "ModelUnavailable")
    /\ UNCHANGED <<cache, constructions, cleared, fs, req>>

\* lines 28-30: typer.Abort() ends the command with exit code 1.
CliValidate(t) ==
    /\ pc[t] = "cli_validate"
    /\ IF RenderWithoutFormat(req[t])
       THEN Finish(t, loc[t], [kind |-> "exit", code |-> 1,
                               body |-> "render needs format"])
       ELSE Goto(t, loc[t], "cli_invoke")
    /\ UNCHANGED <<cache, constructions, cleared, fs, req>>

\* lines 33-36: if method == "crop": model.chat_crop, else model.chat
CliProcessor(method) ==
    IF method = "crop" THEN "chat_crop" ELSE "chat"

\* lines 32-45: the model opens the image path itself.
CliInvoke(t) ==
    /\ pc[t] = "cli_invoke"
    /\ LET k == [entry |-> CliProcessor(req[t].method),
                 ocr_type |-> req[t].ocr_type, render |-> req[t].render,
                 save_render_file |-> req[t].path]
           l == [loc[t] EXCEPT !.call = k]
       IN  \/ /\ req[t].image = "valid"
              /\ fs' = FileAfterCall(k.ocr_type, k.render, k.save_render_file)
              /\ Goto(t, [l EXCEPT !.result = ModelText], "cli_output")
           \/ /\ Raise(t, l, "InferenceFailure")
              /\ UNCHANGED fs
    /\ UNCHANGED <<cache, constructions, cleared, req>>

\* lines 47-51: output_file.write_text(result), or echo the result.
CliOutput(t) ==
    /\ pc[t] = "cli_output"
    /\ IF req[t].path # "None"
       THEN /\ fs' = loc[t].result
            /\ Finish(t, loc[t], [kind |-> "exit", code |-> 0,
                                  body |-> "Results saved to"])
       ELSE /\ UNCHANGED fs
            /\ Finish(t, loc[t], [kind |-> "exit", code |-> 0,
                                  body |-> loc[t].result])
    /\ UNCHANGED <<cache, constructions, cleared, req>>

--------------------------------------------------------------------------
\* The other threads of the process, seen from the request in flight

\* Another thread runs clear_cache (core.py 63-64).
OtherClear ==
    /\ cache # EmptyCache
    /\ cache' = EmptyCache
    /\ cleared' = TRUE
    /\ UNCHANGED <<constructions, fs, pc, req, loc>>

\* Another thread found the cache empty, built a pair and stores it
\* (core.py 14-28).
OtherStore ==
    /\ constructions < MaxConstructions
    /\ constructions' = constructions + 1
    /\ cache' = [k \in {cache_key} |->
                    [model |-> constructions + 1,
                     tokenizer |-> constructions + 1]]
    /\ UNCHANGED <<cleared, fs, pc, req, loc>>

Next ==
    \/ StartAcquire(Main)
    \/ StartDirect(Main)
    \/ StartHttp(Main)
    \/ StartBxn(Main)
    \/ StartCli(Main)
    \/ GetCheck(Main)
    \/ GetConstruct(Main)
    \/ GetStore(Main)
    \/ GetReadModel(Main)
    \/ GetReadTok(Main)
    \/ CoreInvoke(Main)
    \/ Ingest(Main)
    \/ HttpValidate(Main)
    \/ HttpRespond(Main)
    \/ HttpExcept(Main)
    \/ BxnValidate(Main)
    \/ BxnRespond(Main)
    \/ BxnExcept(Main)
    \/ CliLoad(Main)
    \/ CliValidate(Main)
    \/ CliInvoke(Main)
    \/ CliOutput(Main)
    \/ ClearCache(Main)
    \/ Reset(Main)
    \/ OtherClear
    \/ OtherStore

Spec == Init /\ [][Next]_vars

--------------------------------------------------------------------------
\* Properties

Finished(t, transport) == req[t].transport = transport /\ pc[t] = "done"

Called(t) == loc[t].call.entry # "none"

\* C1: while clear_cache has not run, concurrent calls of
\* get_model_and_tokenizer construct the pair at most once, and all callers
\* that have returned hold the same handle.
C1_ConstructedOnce ==
    ~cleared =>
        /\ constructions <= 1
        /\ \A t, u \in Threads :
              (/\ Finished(t, "acquire") /\ loc[t].resp.kind = "return"
               /\ Finished(u, "acquire") /\ loc[u].resp.kind = "return")
              => /\ loc[t].model = loc[u].model
                 /\ loc[t].tok = loc[u].tok

\* C2: the model is never called with render=true and an ocr_type other
\* than "format", whatever the transport.
C2_NoRenderCallWithoutFormat ==
    \A t \in Threads :
        Called(t) => ~(loc[t].call.render /\ loc[t].call.ocr_type # "format")

\* The sources a POST /ocr request supplies.
HttpSources(r) ==
    (IF r.by_file # "None" THEN {"by_file"} ELSE {})
        \cup (IF r.by_base64 \notin {"None", ""} THEN {"by_base64"} ELSE {})

\* C3: a POST /ocr request with both sources, or with neither, gets past
\* validation only as a 400 without any inference.
C3_ExactlyOneSource ==
    \A t \in Threads :
        (/\ req[t].transport = "http"
         /\ pc[t] # "http_validate"
         /\ Cardinality(HttpSources(req[t])) # 1)
        => /\ pc[t] = "done"
           /\ loc[t].resp.code = 400
           /\ ~Called(t)

\* C4: a POST /ocr request that fails on its input answers 400, and a 500
\* comes only from model construction or inference.
C4_ClientFaultsAre400 ==
    \A t \in Threads :
        Finished(t, "http") =>
            /\ loc[t].exc \in {"ValueError", "binascii.Error",
                               "UnidentifiedImageError"}
                   => loc[t].resp.code = 400
            /\ loc[t].resp.code = 500
                   => loc[t].exc \in {"ModelUnavailable", "InferenceFailure"}

\* C5: post_ocr_by_bxn_local_ocr ends with code 0 (success, carrying the
\* model's text) or with the bad-request error of code 400, whatever failed;
\* with base64_image empty or missing it is the 400, and the model is
\* neither acquired nor called.
C5_BxnOutcome ==
    \A t \in Threads :
        req[t].transport = "bxn" =>
            /\ BxnNoInput(req[t]) => ~Called(t) /\ ~loc[t].touched
            /\ pc[t] = "done" =>
                  /\ loc[t].resp.kind = "bxn"
                  /\ \/ /\ loc[t].resp.code = 0
                        /\ loc[t].exc = "None"
                        /\ loc[t].resp.body = ModelText
                        /\ ~BxnNoInput(req[t])
                     \/ /\ loc[t].resp.code = 400
                        /\ BxnNoInput(req[t]) \/ loc[t].exc # "None"

\* A call with an empty base64_image ended in the 400 error.
C5_Witness ==
    \E t \in Threads :
        /\ Finished(t, "bxn")
        /\ req[t].by_base64 = ""
        /\ loc[t].resp = [kind |-> "bxn", code |-> 400,
                          body |-> "base64_image is required"]

\* C6: after the CLI ran --type format --render --output <path> on a valid
\* image and exited 0, the file holds the rendered document and stdout
\* reports the save path.
C6_CliRenderedFile ==
    \A t \in Threads :
        (/\ Finished(t, "cli")
         /\ req[t].image = "valid" /\ req[t].ocr_type = "format"
         /\ req[t].render /\ req[t].path # "None"
         /\ loc[t].resp.kind = "exit" /\ loc[t].resp.code = 0)
        => /\ fs = RenderedDoc
           /\ loc[t].resp.body = "Results saved to"

\* C7: for a POST /ocr request with render=true and type "format", the
\* model is never called with render=true and no save_render_file, and a
\* request that succeeds returns the rendered file's content.
C7_RenderPathAssigned ==
    \A t \in Threads :
        (req[t].transport = "http" /\ req[t].render
         /\ req[t].ocr_type = "format")
        => /\ Called(t) => loc[t].call.save_render_file # "None"
           /\ (pc[t] = "done" /\ loc[t].resp.code = 200)
                  => loc[t].resp.body = RenderedDoc

\* C8: in process_image of core.py and in the CLI, method "chat_crop" calls
\* model.chat_crop, method "chat" calls model.chat, and any other method
\* calls neither and is rejected.
C8_TwoWayDispatch ==
    \A t \in Threads :
        req[t].transport \in {"direct", "cli"} =>
            /\ Called(t) =>
                  /\ req[t].method \in {"chat", "chat_crop"}
                  /\ loc[t].call.entry = req[t].method
            /\ (pc[t] = "done" /\ req[t].method \notin {"chat", "chat_crop"})
                  => /\ ~Called(t)
                     /\ loc[t].resp.kind \in {"exit", "raise"}
                     /\ loc[t].resp.kind = "exit" => loc[t].resp.code # 0

\* The request was rejected by its transport's validation.
ValidationError(t) ==
    /\ pc[t] = "done"
    /\ loc[t].resp.body \in {"input required", "render needs format",
                             "base64_image is required"}

\* C9: on every transport, a request rejected by validation has not loaded
\* or acquired the model.
C9_ValidationBeforeModel ==
    \A t \in Threads :
        (req[t].transport \in {"http", "cli", "bxn"} /\ ValidationError(t))
            => ~loc[t].touched

\* C10: a call of get_model_and_tokenizer never fails with the KeyError of a
\* cache entry removed by a concurrent clear_cache.
C10_AcquireSurvivesClear ==
    \A t \in Threads :
        Finished(t, "acquire") => loc[t].exc # "KeyError"

====
